---- MODULE Spec2Model ----
(***************************************************************************)
(* dbt-remote-state: construction of a ManifestReference (config.py), the  *)
(* ManifestLoader dispatcher and its file/HTTP handlers (manifests.py) and *)
(* the plugin object dbtRemoteState (__init__.py).                         *)
(*                                                                         *)
(* Two objects are modelled, each with its own specification:              *)
(*   Spec        a ManifestLoader and the reference handed to load();      *)
(*   PluginSpec  a dbtRemoteState: read_config and get_manifest_artifacts. *)
(***************************************************************************)
EXTENDS Integers, Sequences, FiniteSets, TLC

VARIABLES
  loading_functions,  \* ManifestLoader.loading_functions (kind -> handler)
  ref,                \* the ManifestReference last constructed, NoRef, or ValidationError
  last,               \* record of the most recent load() call, or NoLoad
  nloads,             \* number of load() calls made on the loader
  ninvocations,       \* number of handler invocations made by the loader
  config,             \* dbtRemoteState.config: Unread, None, ValidationError or a config
  artifacts           \* value last returned by get_manifest_artifacts, or NotCalled

vars == <<loading_functions, ref, last, nloads, ninvocations, config, artifacts>>

loaderVars == <<loading_functions, ref, last, nloads, ninvocations>>
pluginVars == <<config, artifacts>>

\* ------------------------------------------------------------------ bounds

MaxLoads == 2
MaxGz == 2
MaxManifests == 2

\* ------------------------------------------------------------- strings

\* URL schemes are character sequences: the file branch of load_from_path
\* tests them with Python's `in` on a str, which is substring containment.
s_file == <<"f", "i", "l", "e">>
s_FILE == <<"F", "I", "L", "E">>
s_http == <<"h", "t", "t", "p">>
s_https == <<"h", "t", "t", "p", "s">>
s_le == <<"l", "e">>
s_ftp == <<"f", "t", "p">>
s_s3 == <<"s", "3">>
s_none == << >>

\* str.lower on one character (urlparse lower-cases the scheme).
LowerChar(c) ==
  CASE c = "F" -> "f"
    [] c = "I" -> "i"
    [] c = "L" -> "l"
    [] c = "E" -> "e"
    [] OTHER -> c

Lower(s) == [i \in 1..Len(s) |-> LowerChar(s[i])]

\* Python `s in t` for two str values.
IsSubstring(s, t) ==
  \E i \in 0..(Len(t) - Len(s)) : SubSeq(t, i + 1, i + Len(s)) = s

\* A URL path is a sequence of pieces whose last piece is the suffix:
\* << >> is the empty path, <<"/m", ".json", ".gz">> is "/m.json.gz".
p_empty == << >>
p_json == <<"/m", ".json">>
p_gz == <<"/m", ".json", ".gz">>

EndsWithGz(p) == Len(p) > 0 /\ p[Len(p)] = ".gz"

\* ------------------------------------------------------------ config.py

\* class ManifestReferenceType(str, Enum)
ManifestReferenceType ==
  {"file", "dbt_cloud", "paradime", "gcs", "s3", "azure", "snowflake", "databricks"}

\* The members of ManifestReference.config's Union, in declaration order.
UnionOrder ==
  <<"file", "dbt_cloud", "paradime", "gcs", "s3", "azure", "snowflake", "databricks">>

\* The fields of each client configuration class (dbt_remote_state.clients.*).
VariantFields ==
  [file |-> {"path"},
   dbt_cloud |-> {"account_id", "api_endpoint", "job_id", "step"},
   paradime |-> {"schedule_name", "api_key", "api_secret", "api_endpoint", "command_index"},
   gcs |-> {"project_id", "bucket_name", "object_name", "credentials"},
   s3 |-> {"bucket_name", "object_name"},
   azure |-> {"container_name", "object_name", "account_name"},
   snowflake |-> {"stage", "stage_path"},
   databricks |-> {"path"}]

\* A urllib ParseResult, reduced to the components the loader reads.
ParseResult(scheme, netloc, path) ==
  [scheme |-> scheme, netloc |-> netloc, path |-> path]

NoParse == ParseResult(s_none, "", p_empty)

\* A raw `path` value: an existing ParseResult (isParsed) or a str.  A str is
\* given by its pieces: scheme = << >> is a str without a `scheme://` prefix.
RawPath(isParsed, scheme, netloc, path) ==
  [isParsed |-> isParsed, scheme |-> scheme, netloc |-> netloc, path |-> path]

NoRawPath == RawPath(FALSE, s_none, "", p_empty)

\* re.match(r"^[a-zA-Z][a-zA-Z0-9+.-]*://", v)
MatchesSchemePattern(v) == v.scheme # s_none

\* Path(v).absolute().as_uri(), parsed: the working directory is prepended.
AbsoluteFileUri(v) == ParseResult(s_file, "", <<"/cwd">> \o v.path)

\* FileReferenceConfig.default_path
default_path(v) ==
  IF v.isParsed THEN ParseResult(v.scheme, v.netloc, v.path)
  ELSE IF MatchesSchemePattern(v)
       THEN ParseResult(Lower(v.scheme), v.netloc, v.path)
       ELSE AbsoluteFileUri(v)

\* Whether a member of the Union validates the raw mapping `body`.
\* FileReferenceConfig needs `path` (any str or ParseResult is converted).
AcceptsFile(body) == "path" \in body.fields

AcceptsClient(variant, body) == VariantFields[variant] \subseteq body.fields

Accepts(variant, body) ==
  IF variant = "file" THEN AcceptsFile(body) ELSE AcceptsClient(variant, body)

\* pydantic's resolution of the Union: the first member that validates.  The
\* reference's `type` is not an input of it.
UnionMatches(body) == {i \in 1..Len(UnionOrder) : Accepts(UnionOrder[i], body)}

FirstMatch(body) ==
  UnionOrder[CHOOSE i \in UnionMatches(body) : \A j \in UnionMatches(body) : i <= j]

BuildConfig(body) ==
  LET v == FirstMatch(body) IN
  [variant |-> v,
   path |-> IF v = "file" THEN default_path(body.path) ELSE NoParse]

InvalidReference ==
  [ok |-> FALSE, name |-> "", type |-> "", config |-> [variant |-> "", path |-> NoParse],
   excluded_packages |-> << >>, optional |-> FALSE]

\* Whether ManifestReference(**raw) validates.
ReferenceValidates(raw) ==
  /\ raw.type \in ManifestReferenceType
  /\ UnionMatches(raw.body) # {}

\* class ManifestReference: ManifestReference(**raw)
ManifestReference(raw) ==
  IF ReferenceValidates(raw)
  THEN [ok |-> TRUE, name |-> raw.name, type |-> raw.type,
        config |-> BuildConfig(raw.body),
        excluded_packages |-> << >>, optional |-> raw.optional]
  ELSE InvalidReference

\* ---------------------------------------------------------- exceptions

\* A hierarchy in which the two path errors derive from the configuration error.
BaseClassPathErrorsAreConfigErrors ==
  [RemoteStateConfigurationError |-> "BaseException",
   UnknownManifestPathType |-> "RemoteStateConfigurationError",
   InvalidManifestPath |-> "RemoteStateConfigurationError",
   HTTPError |-> "Exception",
   ContentDecodingError |-> "Exception",
   BadGzipFile |-> "Exception",
   JSONDecodeError |-> "Exception",
   AttributeError |-> "Exception",
   ClientError |-> "Exception",
   Exception |-> "BaseException",
   BaseException |-> "object"]

\* The base class of each exception class a load can raise.
\* RemoteStateConfigurationError(BaseException); UnknownManifestPathType(Exception);
\* InvalidManifestPath(Exception); the others are library / client errors.
BaseClass ==
  [RemoteStateConfigurationError |-> "BaseException",
   UnknownManifestPathType |-> "Exception",
   InvalidManifestPath |-> "Exception",
   HTTPError |-> "Exception",
   ContentDecodingError |-> "Exception",
   BadGzipFile |-> "Exception",
   JSONDecodeError |-> "Exception",
   AttributeError |-> "Exception",
   ClientError |-> "Exception",
   Exception |-> "BaseException",
   BaseException |-> "object"]

\* issubclass(cls, base); the hierarchy above is at most three deep.
IsSubclass(cls, base) ==
  \/ cls = base
  \/ BaseClass[cls] = base
  \/ (BaseClass[cls] # "object" /\ BaseClass[BaseClass[cls]] = base)

\* What a call yields: a returned value or a raised exception.
\* Parsed documents are JSON objects (the handlers are annotated -> Dict);
\* "None" is Python's None.
Return(v) == [tag |-> "return", val |-> v, msg |-> ""]
Raise(cls, msg) == [tag |-> "raise", val |-> cls, msg |-> msg]

Documents == {"{}", "{nodes}"}

\* ------------------------------------------------------- the environment

\* A byte string: a JSON text (a document, or malformed) under `gz` layers
\* of gzip compression.
Bytes(gz, json) == [gz |-> gz, json |-> json]

Bodies == [gz : 0..MaxGz, json : Documents \cup {"malformed"}]

NoBytes == Bytes(0, "malformed")

\* gzip decompression of a byte string: fails on bytes that are not gzip.
IsGzip(b) == b.gz > 0
Gunzip(b) == Bytes(b.gz - 1, b.json)

\* json.load / json.loads of a byte string (still-compressed bytes do not parse).
ParseJson(b) ==
  IF b.gz = 0 /\ b.json \in Documents
  THEN Return(b.json)
  ELSE Raise("JSONDecodeError", "")

\* The world one load() call meets: the local file at the resolved path, the
\* HTTP server's response, and the backend client's answer.
Env(exists, file, status, encoding, body, client) ==
  [exists |-> exists, file |-> file, status |-> status, encoding |-> encoding,
   body |-> body, client |-> client]

ClientOutcomes ==
  {Return(d) : d \in Documents}
    \cup {Raise("RemoteStateConfigurationError", "client"), Raise("ClientError", "")}

FsEnvs ==
  {Env(FALSE, NoBytes, 404, "none", NoBytes, Raise("ClientError", ""))}
    \cup {Env(TRUE, b, 404, "none", NoBytes, Raise("ClientError", "")) : b \in Bodies}

HttpEnvs ==
  {Env(FALSE, NoBytes, st, e, NoBytes, Raise("ClientError", "")) :
     st \in {304, 404}, e \in {"none", "gzip"}}
    \cup {Env(FALSE, NoBytes, 200, e, b, Raise("ClientError", "")) :
            e \in {"none", "gzip"}, b \in Bodies}

ClientEnvs == {Env(FALSE, NoBytes, 404, "none", NoBytes, c) : c \in ClientOutcomes}

Envs == FsEnvs \cup HttpEnvs \cup ClientEnvs

\* --------------------------------------------------------- manifests.py

\* A handler's run: its outcome and the I/O it performed, in order.
Ran(out, io) == [out |-> out, io |-> io]

\* The file_path load_from_local_filesystem builds (POSIX; no percent escapes).
FilePath(cfg) ==
  IF cfg.path.netloc # "" THEN <<"//", cfg.path.netloc>> \o cfg.path.path
  ELSE cfg.path.path

\* load_from_local_filesystem with the existence test ahead of the path test.
load_from_local_filesystem_exists_first(cfg, env) ==
  IF ~env.exists
  THEN Ran(Raise("RemoteStateConfigurationError", "path does not exist"), <<"exists">>)
  ELSE IF cfg.path.path = p_empty
  THEN Ran(Raise("InvalidManifestPath", ""), <<"exists">>)
  ELSE IF EndsWithGz(FilePath(cfg))
  THEN Ran(IF IsGzip(env.file) THEN ParseJson(Gunzip(env.file))
                               ELSE Raise("BadGzipFile", ""),
           <<"exists", "open">>)
  ELSE Ran(ParseJson(env.file), <<"exists", "open">>)

\* ManifestLoader.load_from_local_filesystem; env.exists and env.file are the
\* file system's answers for FilePath(cfg).
load_from_local_filesystem(cfg, env) ==
  IF cfg.path.path = p_empty
  THEN Ran(Raise("InvalidManifestPath", ""), << >>)
  ELSE IF ~env.exists
  THEN Ran(Raise("RemoteStateConfigurationError", "path does not exist"), <<"exists">>)
  ELSE IF EndsWithGz(FilePath(cfg))
  THEN Ran(IF IsGzip(env.file) THEN ParseJson(Gunzip(env.file))
                               ELSE Raise("BadGzipFile", ""),
           <<"exists", "open">>)
  ELSE Ran(ParseJson(env.file), <<"exists", "open">>)

\* response.raise_for_status(): HTTPError for a 4xx or 5xx status.
RaisesForStatus(status) == 400 <= status /\ status < 600

\* response.content: requests hands out the body with the transfer's
\* Content-Encoding already undone (urllib3 decode_content=True), and raises
\* ContentDecodingError when a body declared gzip is not gzip.
ResponseContent(env) ==
  IF env.encoding = "gzip"
  THEN IF IsGzip(env.body) THEN Return(Gunzip(env.body))
                           ELSE Raise("ContentDecodingError", "")
  ELSE Return(env.body)

\* The test that sends the response through gzip.GzipFile.
DecompressTrigger(cfg, env) ==
  EndsWithGz(cfg.path.path) \/ env.encoding = "gzip"

\* The two ways the body is parsed, each from response.content.
ParseResponse(cfg, env) ==
  LET content == ResponseContent(env) IN
  IF content.tag = "raise" THEN content
  ELSE IF DecompressTrigger(cfg, env)
  THEN IF IsGzip(content.val) THEN ParseJson(Gunzip(content.val))
                              ELSE Raise("BadGzipFile", "")
  ELSE ParseJson(content.val)

\* ManifestLoader.load_from_http
load_from_http(cfg, env) ==
  IF cfg.path.path = p_empty
  THEN Ran(Raise("InvalidManifestPath", ""), << >>)
  ELSE IF RaisesForStatus(env.status)
  THEN Ran(Raise("HTTPError", ""), <<"GET">>)
  ELSE Ran(ParseResponse(cfg, env), <<"GET">>)

\* `config.path.scheme in ("file")`: ("file") is the str "file", not a tuple,
\* so the test is substring containment.
InFileLiteral(scheme) == IsSubstring(scheme, s_file)

\* ManifestLoader.load_from_path
load_from_path(cfg, env) ==
  IF cfg.variant # "file"
  THEN Ran(Raise("AttributeError", ""), << >>)
  ELSE IF cfg.path.scheme \in {s_http, s_https}
  THEN [load_from_http(cfg, env) EXCEPT !.io = <<"load_from_http">> \o @]
  ELSE IF InFileLiteral(cfg.path.scheme)
  THEN [load_from_local_filesystem(cfg, env)
          EXCEPT !.io = <<"load_from_local_filesystem">> \o @]
  ELSE Ran(Raise("UnknownManifestPathType", ""), << >>)

\* The attributes of `config` each remote-service handler reads.
HandlerReads ==
  [load_from_dbt_cloud |-> {"account_id", "api_endpoint", "job_id", "step"},
   load_from_gcs |-> {"project_id", "bucket_name", "object_name", "credentials"},
   load_from_s3 |-> {"bucket_name", "object_name"},
   load_from_azure |-> {"container_name", "object_name", "account_name"},
   load_from_snowflake |-> {"stage", "stage_path"},
   load_from_paradime |->
     {"schedule_name", "api_key", "api_secret", "api_endpoint", "command_index"},
   load_from_databricks |-> {"path"}]

\* load_from_dbt_cloud ... load_from_databricks: build the client from the
\* config's attributes and return what its fetch returns or raises.
load_from_client(handler, cfg, env) ==
  IF HandlerReads[handler] \subseteq VariantFields[cfg.variant]
  THEN Ran(env.client, <<"client">>)
  ELSE Ran(Raise("AttributeError", ""), << >>)

\* Calling one handler function.
Invoke(handler, cfg, env) ==
  IF handler = "load_from_path"
  THEN load_from_path(cfg, env)
  ELSE load_from_client(handler, cfg, env)

\* ManifestLoader.__init__: the kind -> handler table.
LoadingFunctions ==
  [file |-> "load_from_path",
   dbt_cloud |-> "load_from_dbt_cloud",
   gcs |-> "load_from_gcs",
   s3 |-> "load_from_s3",
   azure |-> "load_from_azure",
   snowflake |-> "load_from_snowflake",
   paradime |-> "load_from_paradime",
   databricks |-> "load_from_databricks"]

\* An except clause that catches every exception.
CaughtAnyException(out) == out.tag = "raise"

\* The except clause of load: `except RemoteStateConfigurationError`.
Caught(out) == out.tag = "raise" /\ IsSubclass(out.val, "RemoteStateConfigurationError")

\* getattr(manifest_reference, "optional", False)
IsOptional(r) == r.optional

\* A skip that yields an empty mapping instead of None.
OptionalPolicyEmptyDict(r, out) ==
  IF Caught(out)
  THEN IF IsOptional(r) THEN Return("{}") ELSE out
  ELSE out

\* The try/except of load around the handler's outcome.
OptionalPolicy(r, out) ==
  IF Caught(out)
  THEN IF IsOptional(r) THEN Return("None") ELSE out
  ELSE out

\* A dispatch that invokes the handler a second time (a retry).
DispatchRetry(table, r) ==
  IF r.type \in DOMAIN table
  THEN <<[handler |-> table[r.type], config |-> r.config],
         [handler |-> table[r.type], config |-> r.config]>>
  ELSE << >>

\* The handler invocations one load() makes, in order.
Dispatch(table, r) ==
  IF r.type \in DOMAIN table
  THEN <<[handler |-> table[r.type], config |-> r.config]>>
  ELSE << >>

\* ManifestLoader.load: the outcome, the handler invocations, the I/O.
load(table, r, env) ==
  LET calls == Dispatch(table, r) IN
  IF calls = << >>
  THEN [out |-> Raise("RemoteStateConfigurationError", "not a valid type"),
        handled |-> Raise("RemoteStateConfigurationError", "not a valid type"),
        calls |-> calls, io |-> << >>]
  ELSE LET ran == Invoke(calls[1].handler, calls[1].config, env) IN
       [out |-> OptionalPolicy(r, ran.out), handled |-> ran.out,
        calls |-> calls, io |-> ran.io]

\* ------------------------------------------------------------ __init__.py

\* class dbtRemoteStateConfig: every entry of `manifests` is validated as a
\* ManifestReference; nothing else is checked.
UnreadConfig == [state |-> "unread", manifests |-> << >>, enable_telemetry |-> FALSE]
NoneConfig == [state |-> "None", manifests |-> << >>, enable_telemetry |-> FALSE]
ConfigValidationError ==
  [state |-> "ValidationError", manifests |-> << >>, enable_telemetry |-> FALSE]

dbtRemoteStateConfig(raw) ==
  IF \A i \in 1..Len(raw.manifests) : ReferenceValidates(raw.manifests[i])
  THEN [state |-> "ok",
        manifests |-> [i \in 1..Len(raw.manifests) |-> ManifestReference(raw.manifests[i])],
        enable_telemetry |-> raw.enable_telemetry]
  ELSE ConfigValidationError

\* dbtRemoteState.read_config
read_config(exists, raw) ==
  IF ~exists THEN NoneConfig ELSE dbtRemoteStateConfig(raw)

\* The value get_manifest_artifacts returns: {"./path_to_artifacts": {}}.
PluginArtifacts == [k \in {"./path_to_artifacts"} |-> "{}"]

NotCalled == [called |-> FALSE, value |-> << >>]

\* ------------------------------------------------------------- inputs

Names == {"a", "b"}
Schemes == {s_file, s_FILE, s_http, s_https, s_le, s_ftp, s_s3}
Paths == {p_empty, p_json, p_gz}

\* "scheme://srv/..." for every scheme, "file:///..." and strings without a scheme.
StrPaths ==
  {RawPath(FALSE, sc, "srv", p) : sc \in Schemes, p \in Paths}
    \cup {RawPath(FALSE, s_file, "", p) : p \in Paths}
    \cup {RawPath(FALSE, s_none, "", p) : p \in Paths}

ParsedPaths ==
  {RawPath(TRUE, s_none, "", p_json), RawPath(TRUE, s_FILE, "", p_json),
   RawPath(TRUE, s_http, "srv", p_empty)}

RawBody(fields, path) == [fields |-> fields, path |-> path]

PathBodies == {RawBody({"path"}, p) : p \in StrPaths \cup ParsedPaths}

FieldBodies ==
  {RawBody(VariantFields[v], NoRawPath) : v \in ManifestReferenceType \ {"file", "databricks"}}
    \cup {RawBody({}, NoRawPath)}

RawReference(name, type, body, optional) ==
  [name |-> name, type |-> type, body |-> body, optional |-> optional]

\* The raw references handed to ManifestReference(**raw) on its own.
RawReferences ==
  {RawReference("a", t, b, o) :
     t \in ManifestReferenceType \cup {"bogus"}, b \in PathBodies \cup FieldBodies,
     o \in BOOLEAN}

\* The raw entries of a configuration file's `manifests` list.
ConfigEntries ==
  {RawReference(n, t, b, o) :
     n \in Names, t \in {"file", "s3", "bogus"},
     b \in {RawBody({"path"}, RawPath(FALSE, s_none, "", p_json)),
            RawBody(VariantFields["s3"], NoRawPath),
            RawBody({}, NoRawPath)},
     o \in BOOLEAN}

RECURSIVE ListsUpTo(_, _)
ListsUpTo(S, n) ==
  IF n = 0 THEN {<< >>}
  ELSE ListsUpTo(S, n - 1) \cup {Append(l, x) : l \in ListsUpTo(S, n - 1), x \in S}

RawConfigs ==
  [manifests : ListsUpTo(ConfigEntries, MaxManifests), enable_telemetry : BOOLEAN]

\* ---------------------------------------------------------------- state

NoLoad ==
  [done |-> FALSE, ref |-> InvalidReference, env |-> CHOOSE e \in ClientEnvs : TRUE,
   out |-> Return("None"), handled |-> Return("None"), calls |-> << >>, io |-> << >>]

NoRef == InvalidReference

Init ==
  /\ loading_functions = LoadingFunctions
  /\ ref = NoRef
  /\ last = NoLoad
  /\ nloads = 0
  /\ ninvocations = 0
  /\ config = UnreadConfig
  /\ artifacts = NotCalled

\* ManifestReference(**raw): a reference is constructed, or validation fails
\* and another raw reference is tried.  The loader is then called with the
\* reference that was constructed.
Construct(raw) ==
  /\ ~ref.ok
  /\ ref' = ManifestReference(raw)
  /\ last' = NoLoad
  /\ UNCHANGED <<loading_functions, nloads, ninvocations>>
  /\ UNCHANGED pluginVars

\* loader.load(ref) in the world `env`.
Load(env) ==
  /\ ref.ok
  /\ nloads < MaxLoads
  /\ LET l == load(loading_functions, ref, env) IN
     /\ last' = [done |-> TRUE, ref |-> ref, env |-> env, out |-> l.out,
                 handled |-> l.handled, calls |-> l.calls, io |-> l.io]
     /\ ninvocations' = ninvocations + Len(l.calls)
  /\ nloads' = nloads + 1
  /\ UNCHANGED <<loading_functions, ref>>
  /\ UNCHANGED pluginVars

\* dbtRemoteState.__init__: the configuration file is read once.
ReadConfig(exists, raw) ==
  /\ config.state = "unread"
  /\ config' = read_config(exists, raw)
  /\ UNCHANGED artifacts
  /\ UNCHANGED loaderVars

\* dbtRemoteState.get_manifest_artifacts, on a plugin whose __init__ returned.
GetManifestArtifacts ==
  /\ config.state \in {"None", "ok"}
  /\ artifacts' = [called |-> TRUE, value |-> PluginArtifacts]
  /\ UNCHANGED config
  /\ UNCHANGED loaderVars

Next ==
  \/ \E raw \in RawReferences : Construct(raw)
  \/ \E env \in Envs : Load(env)

Spec == Init /\ [][Next]_vars

PluginNext ==
  \/ \E exists \in BOOLEAN, raw \in RawConfigs : ReadConfig(exists, raw)
  \/ GetManifestArtifacts

PluginSpec == Init /\ [][PluginNext]_vars

\* --------------------------------------------------------------- claims

Has(io, e) == \E i \in 1..Len(io) : io[i] = e

\* The last call was load() of a file-kind reference carrying a FileReferenceConfig.
FileLoad == last.done /\ last.ref.type = "file" /\ last.ref.config.variant = "file"

HandlerRaised(cls) == last.done /\ last.handled.tag = "raise" /\ last.handled.val = cls

\* C1: when the dispatched handler raises RemoteStateConfigurationError, load
\* returns None for an optional reference and re-raises the same error for a
\* non-optional one; None is returned in no other case, and a document the
\* handler returned (the empty document included) is returned as it is.
C1_OptionalityPolicy ==
  last.done =>
    /\ (HandlerRaised("RemoteStateConfigurationError") /\ last.ref.optional)
         => last.out = Return("None")
    /\ (HandlerRaised("RemoteStateConfigurationError") /\ ~last.ref.optional)
         => last.out = last.handled
    /\ last.handled.tag = "return"
         => (last.out = last.handled /\ last.out.val \in Documents)
    /\ last.out = Return("None")
         => (HandlerRaised("RemoteStateConfigurationError") /\ last.ref.optional)

\* An optional file reference whose path does not exist was loaded and skipped.
C1_Witness ==
  /\ FileLoad
  /\ last.ref.config.path.scheme = s_file
  /\ last.ref.optional
  /\ ~last.env.exists
  /\ last.handled = Raise("RemoteStateConfigurationError", "path does not exist")
  /\ last.out = Return("None")

TransportFaults == {"HTTPError", "JSONDecodeError", "BadGzipFile", "ContentDecodingError"}

\* C2: an HTTP status error, a JSON parse error or a gzip decompression error
\* raised inside a handler is raised by load unchanged, whether or not the
\* reference is optional; load does not return None for it.
C2_TransportFaultsPropagate ==
  (last.done /\ last.handled.tag = "raise" /\ last.handled.val \in TransportFaults)
    => (last.out = last.handled /\ last.out # Return("None"))

\* An optional http reference met a 404 and load raised HTTPError.
C2_Witness ==
  /\ FileLoad
  /\ last.ref.optional
  /\ last.env.status = 404
  /\ last.handled = Raise("HTTPError", "")
  /\ last.out = Raise("HTTPError", "")

\* C3: UnknownManifestPathType and InvalidManifestPath raised for a file-kind
\* reference are raised by load whether or not the reference is optional; they
\* are never turned into None.
C3_PathErrorsAreFatal ==
  (FileLoad /\ last.handled.tag = "raise"
     /\ last.handled.val \in {"UnknownManifestPathType", "InvalidManifestPath"})
    => last.out = last.handled

\* An optional file-kind reference with an ftp URL was loaded and load raised.
C3_Witness ==
  /\ FileLoad
  /\ last.ref.optional
  /\ last.ref.config.path.scheme = s_ftp
  /\ last.out = Raise("UnknownManifestPathType", "")

\* C4: for a file-kind config the HTTP handler runs iff the scheme is http or
\* https, the local-filesystem handler runs iff the scheme is exactly file,
\* and any other scheme raises UnknownManifestPathType with neither handler run.
C4_SubDispatch ==
  FileLoad =>
    LET scheme == last.ref.config.path.scheme IN
    /\ Has(last.io, "load_from_http") <=> scheme \in {s_http, s_https}
    /\ Has(last.io, "load_from_local_filesystem") <=> scheme = s_file
    /\ scheme \notin {s_http, s_https, s_file}
         => (last.handled = Raise("UnknownManifestPathType", "") /\ last.io = << >>)

\* C5: every reference that construction accepts carries the config variant of
\* its kind, and load hands a handler only a config of the handler's kind.
C5_ConfigVariantEqualsKind ==
  /\ ref.ok => ref.config.variant = ref.type
  /\ last.done => \A i \in 1..Len(last.calls) :
       last.calls[i].config.variant = last.ref.type

\* C6: in every configuration that validation produces, the names of the
\* manifest references are pairwise distinct.
C6_UniqueNames ==
  config.state = "ok" =>
    \A i, j \in 1..Len(config.manifests) :
      config.manifests[i].name = config.manifests[j].name => i = j

\* C7: an http(s) load whose URL path has no .gz suffix and whose 2xx response
\* carries a gzip-compressed valid JSON document with Content-Encoding: gzip
\* returns that document.
C7_GzipEncodedResponseIsLoaded ==
  (/\ FileLoad
   /\ last.ref.config.path.scheme \in {s_http, s_https}
   /\ last.ref.config.path.path # p_empty
   /\ ~EndsWithGz(last.ref.config.path.path)
   /\ last.env.status = 200
   /\ last.env.encoding = "gzip"
   /\ last.env.body.gz = 1
   /\ last.env.body.json \in Documents)
    => last.out = Return(last.env.body.json)

\* C8: the mapping returned for a validated configuration has exactly one entry
\* per reference name of the configuration.
C8_OneEntryPerReference ==
  (artifacts.called /\ config.state = "ok")
    => DOMAIN artifacts.value =
         {config.manifests[i].name : i \in 1..Len(config.manifests)}

\* C9: the table has a handler for each of the eight kinds and never changes;
\* every load invokes exactly the handler registered for the reference's kind,
\* once, with the reference's config, also when that handler fails; the
\* invalid-type error is never raised; and the number of handler invocations
\* equals the number of load calls.
C9_DispatchTotalExactSingleShot ==
  /\ DOMAIN loading_functions = ManifestReferenceType
  /\ loading_functions = LoadingFunctions
  /\ ninvocations = nloads
  /\ last.done =>
       /\ last.calls =
            <<[handler |-> loading_functions[last.ref.type], config |-> last.ref.config]>>
       /\ last.out.msg # "not a valid type"

\* A second load on the same loader whose handler failed: one invocation, no retry.
C9_Witness ==
  /\ nloads = MaxLoads
  /\ ninvocations = MaxLoads
  /\ last.done
  /\ last.handled.tag = "raise"
  /\ Len(last.calls) = 1

\* C10: a file-kind reference whose canonical URL has an empty path component
\* is loaded without any existence test, file read or HTTP GET, and yields
\* neither RemoteStateConfigurationError nor None: InvalidManifestPath for the
\* file, http and https schemes.  The existence test is made only for a
\* non-empty path, and a file is read only after the existence test.
C10_PathCheckedFirst ==
  FileLoad =>
    /\ last.ref.config.path.path = p_empty =>
         /\ ~Has(last.io, "exists") /\ ~Has(last.io, "open") /\ ~Has(last.io, "GET")
         /\ last.out.val \notin {"RemoteStateConfigurationError", "None"}
         /\ last.ref.config.path.scheme \in {s_file, s_http, s_https}
              => last.out = Raise("InvalidManifestPath", "")
    /\ Has(last.io, "exists") => last.ref.config.path.path # p_empty
    /\ Has(last.io, "open") =>
         \E i, j \in 1..Len(last.io) :
           i < j /\ last.io[i] = "exists" /\ last.io[j] = "open"
    /\ last.handled = Raise("RemoteStateConfigurationError", "path does not exist")
         => ~Has(last.io, "open")

\* An optional file:// reference with an empty path, loaded where nothing
\* exists on disk: InvalidManifestPath, and no I/O beyond the sub-dispatch.
C10_Witness ==
  /\ FileLoad
  /\ last.ref.config.path.scheme = s_file
  /\ last.ref.config.path.path = p_empty
  /\ last.ref.optional
  /\ ~last.env.exists
  /\ last.out = Raise("InvalidManifestPath", "")
  /\ last.io = <<"load_from_local_filesystem">>

====
